---- MODULE Spec2Model ----
(***************************************************************************)
(* zerodrop: the blacklist rule engine and its parser and renderer         *)
(* (blacklist.go), the geofence intersection (geofence.go) and the         *)
(* per-request access gate (ShotHandler.Access).                           *)
(*                                                                         *)
(* Conventions.  A Go string is a sequence of one-character strings, so    *)
(* that ToLower and the glob/regexp matching are computed and not assumed. *)
(* A nil pointer / nil slice field is Nil (the empty sequence) and a       *)
(* non-nil one is a one-element sequence <<v>>.  Floating point metres are *)
(* integers (whole metres).                                                *)
(***************************************************************************)
EXTENDS Integers, Sequences, FiniteSets, TLC

VARIABLES
    list,    \* Blacklist.List of the blacklist under evaluation
    ip,      \* the requester IP handed to Allow
    ctx,     \* BlacklistContext: GeoDB and IPSet, each possibly nil
    dns,     \* the resolver's behaviour for net.LookupIP / net.LookupAddr
    out,     \* Nil before Allow has run, <<final evaluation state>> after
    mi,      \* receiver of Geofence.Intersection
    tu,      \* argument of Geofence.Intersection
    isect,   \* Nil, or <<SetIntersection returned>>
    db,      \* the resource store: Nil (no such entry) or <<committed entry>>
    pc,      \* per request: position inside ShotHandler.Access
    req,     \* per request: the remote address it comes from
    entry,   \* per request: the local copy returned by DB.Get
    ret,     \* per request: what Access returned and whether it committed
    db0,     \* the resource store as it was at the start (history)
    text,    \* the blacklist text handed to ParseBlacklist
    parsed,  \* Nil, or <<outcome of ParseBlacklist(text)>>
    rendered,\* Nil, or <<Blacklist.String() of the parsed blacklist>>
    reparsed \* Nil, or <<outcome of ParseBlacklist(rendered)>>

vars == <<list, ip, ctx, dns, out, mi, tu, isect, db, pc, req, entry, ret, db0,
          text, parsed, rendered, reparsed>>

evalVars == <<list, ip, ctx, dns, out>>
geoVars  == <<mi, tu, isect>>
gateVars == <<db, pc, req, entry, ret, db0>>
parseVars == <<text, parsed, rendered, reparsed>>

Nil == <<>>

-----------------------------------------------------------------------------
(* Bounds of the model *)

\* longest blacklist built in the evaluator specification
MaxRules == 2
\* number of concurrent requests in the gate specification
NumReqs == 2
\* largest latitude (whole degrees) of a geofence centre in SpecGeo
MaxLat == 2

-----------------------------------------------------------------------------
(* Strings *)

Upper == <<"A","B","C","D","E","F","G","H","I","J","K","L","M",
           "N","O","P","Q","R","S","T","U","V","W","X","Y","Z">>
Lower == <<"a","b","c","d","e","f","g","h","i","j","k","l","m",
           "n","o","p","q","r","s","t","u","v","w","x","y","z">>

LowerChar(c) ==
    IF \E i \in DOMAIN Upper : Upper[i] = c
    THEN Lower[CHOOSE i \in DOMAIN Upper : Upper[i] = c]
    ELSE c

\* strings.ToLower
ToLower(s) == [i \in DOMAIN s |-> LowerChar(s[i])]

\* A compiled regular expression is a sequence of tokens: ".*" matches any
\* run of characters, every other token is a literal character.
\* regexp.QuoteMeta followed by the replacement of `\*` by `.*`: every
\* character of the glob is a literal, except "*", which becomes ".*".
GlobToRegexp(glob) == [i \in DOMAIN glob |-> IF glob[i] = "*" THEN ".*" ELSE glob[i]]

RECURSIVE MatchAt(_, _, _, _)
MatchAt(re, j, s, pos) ==
    IF j > Len(re) THEN TRUE
    ELSE IF re[j] = ".*"
         THEN \E k \in pos..(Len(s) + 1) : MatchAt(re, j + 1, s, k)
         ELSE /\ pos <= Len(s)
              /\ s[pos] = re[j]
              /\ MatchAt(re, j + 1, s, pos + 1)

\* Regexp.Match / regexp.MatchString: unanchored, a match may start anywhere.
RegexpMatch(re, s) == \E start \in 1..(Len(s) + 1) : MatchAt(re, 1, s, start)

-----------------------------------------------------------------------------
(* IP addresses and networks *)

\* net.IP: the family (4 or 6) and the address as a number.
IPv4(a, b, c, d) == [fam |-> 4, n |-> ((a * 256 + b) * 256 + c) * 256 + d]
IPv6Loopback == [fam |-> 6, n |-> 1]

RECURSIVE Pow2(_)
Pow2(k) == IF k = 0 THEN 1 ELSE 2 * Pow2(k - 1)

\* IP.Equal
IPEqual(a, b) == a.fam = b.fam /\ a.n = b.n

\* IPNet.Contains for an IPv4 network: the address has the network's
\* length and agrees with it on the masked bits.
NetContains(network, x) ==
    /\ x.fam = network.fam
    /\ x.n \div Pow2(32 - network.len) = network.n \div Pow2(32 - network.len)

\* IP.To4: nil for an address that is not IPv4.
To4(x) == IF x.fam = 4 THEN <<x>> ELSE Nil

-----------------------------------------------------------------------------
(* geofence.go *)

IsDisjoint == 1
IsSubset == 2
IsSuperset == 4

\* i & bit != 0, for bit one of the three powers of two above
HasBit(i, bit) == (i \div bit) % 2 = 1

Abs(x) == IF x < 0 THEN -x ELSE x

\* metres per degree of latitude on the sphere of radius 6371 km
MetersPerDegree == 111195

\* miPoint.GreatCircleDistance(tuPoint) * 1000, for two points of the same
\* meridian (every centre of the model has longitude 0).
Distance(a, b) == MetersPerDegree * Abs(a.Latitude - b.Latitude)

\* Mutant of Intersection: the first test compares the receiver's radius
\* alone with the distance.
IntersectionOneSided(a, b) ==
    LET distance == Distance(a, b)
    IN  IF a.Radius > distance
        THEN IsDisjoint
        ELSE (IF a.Radius - b.Radius > distance THEN IsSuperset ELSE 0)
             + (IF b.Radius - a.Radius > distance THEN IsSubset ELSE 0)

\* func (mi *Geofence) Intersection(tu *Geofence) (i SetIntersection)
Intersection(a, b) ==
    LET distance == Distance(a, b)
        ourRadius == a.Radius + b.Radius
    IN  IF ourRadius > distance
        THEN IsDisjoint
        ELSE (IF a.Radius - b.Radius > distance THEN IsSuperset ELSE 0)
             + (IF b.Radius - a.Radius > distance THEN IsSubset ELSE 0)

-----------------------------------------------------------------------------
(* blacklist.go: BlacklistRule, BlacklistContext and their environment *)

\* type BlacklistRule struct: the zero value
EmptyRule ==
    [Comment |-> Nil, Negation |-> FALSE, All |-> FALSE, Network |-> Nil,
     IP |-> Nil, Hostname |-> Nil, Regexp |-> Nil, Geofence |-> Nil,
     IPCat |-> Nil]

Negated(rule) == [rule EXCEPT !.Negation = TRUE]

\* The requesters of the model.
IPTor == IPv4(10, 1, 2, 3)
IPRes == IPv4(8, 8, 8, 8)
IPCgn == IPv4(100, 64, 0, 1)
IPs == {IPTor, IPRes, IPCgn, IPv6Loopback}

\* The rules of the model, one of each kind, as ParseBlacklist builds them.
RuleAll      == [EmptyRule EXCEPT !.All = TRUE]
RuleNetwork  == [EmptyRule EXCEPT !.Network = <<[fam |-> 4, n |-> IPv4(10, 0, 0, 0).n, len |-> 8]>>]
RuleIP       == [EmptyRule EXCEPT !.IP = <<IPRes>>]
RuleHostname == [EmptyRule EXCEPT !.Hostname = <<"h", ".", "i", "o">>]
RuleRegexp   == [EmptyRule EXCEPT !.Regexp = <<(<<"h", ".", ".*">>)>>]
RuleGeofence == [EmptyRule EXCEPT !.Geofence = <<[Latitude |-> 0, Longitude |-> 0, Radius |-> 100000]>>]
RuleIPCat    == [EmptyRule EXCEPT !.IPCat = <<"t", "o", "r", "*">>]
RuleComment  == [EmptyRule EXCEPT !.Comment = <<"E", "r", "r", "o", "r">>]

BaseRules == {RuleAll, RuleNetwork, RuleIP, RuleHostname, RuleRegexp,
              RuleGeofence, RuleIPCat, RuleComment}
Rules == BaseRules \cup {Negated(r) : r \in BaseRules}

\* ctx.GeoDB.City(ip): the record of the geolocation database, or an error.
\* IPTor is at the centre of RuleGeofence, IPCgn one degree north with an
\* accuracy radius that overlaps it, IPRes two degrees north and far from it;
\* the database has no record for the IPv6 loopback address.
City(x) ==
    IF x = IPTor THEN [err |-> FALSE, Latitude |-> 0, Longitude |-> 0, AccuracyRadius |-> 1]
    ELSE IF x = IPCgn THEN [err |-> FALSE, Latitude |-> 1, Longitude |-> 0, AccuracyRadius |-> 50]
    ELSE IF x = IPRes THEN [err |-> FALSE, Latitude |-> 2, Longitude |-> 0, AccuracyRadius |-> 5]
    ELSE [err |-> TRUE, Latitude |-> 0, Longitude |-> 0, AccuracyRadius |-> 0]

LabelTor == <<"T", "o", "r", " ", "E", "x", "i", "t", " ", "N", "o", "d", "e">>
LabelRes == <<"R", "e", "s", "i", "d", "e", "n", "t", "i", "a", "l">>

\* ctx.IPSet.Contains(dots): the interval holding the address (nil when no
\* interval holds it), or an error when the set is broken.
IPSetContains(set, x) ==
    IF set = "broken" THEN [err |-> TRUE, interval |-> Nil]
    ELSE IF x = IPTor THEN [err |-> FALSE, interval |-> <<[Name |-> LabelTor]>>]
    ELSE IF x = IPRes THEN [err |-> FALSE, interval |-> <<[Name |-> LabelRes]>>]
    ELSE [err |-> FALSE, interval |-> Nil]

\* type BlacklistContext struct
Contexts == [GeoDB : {Nil, <<"geodb">>}, IPSet : {Nil, <<"ipcat">>, <<"broken">>}]

\* The zone the resolver serves: h.io has the address of IPTor, whose PTR
\* record names it in upper case.
ForwardZone(host) == IF host = <<"h", ".", "i", "o">> THEN {IPTor} ELSE {}
ReverseZone(x) ==
    IF x = IPTor THEN {<<"H", ".", "I", "O">>}
    ELSE IF x = IPRes THEN {<<"d", ".", "g", "g">>}
    ELSE {}

\* The resolver: a forward lookup succeeds or fails; a reverse lookup
\* succeeds, fails with no names, or fails with the names it could validate.
DNSEnvs == [fwd : {"ok", "err"}, rev : {"ok", "err", "partial"}]

\* net.LookupIP
LookupIP(d, host) ==
    IF d.fwd = "ok" THEN [err |-> FALSE, addrs |-> ForwardZone(host)]
    ELSE [err |-> TRUE, addrs |-> {}]

\* net.LookupAddr
LookupAddr(d, x) ==
    IF d.rev = "ok" THEN [err |-> FALSE, names |-> ReverseZone(x)]
    ELSE IF d.rev = "partial" THEN [err |-> TRUE, names |-> ReverseZone(x)]
    ELSE [err |-> TRUE, names |-> {}]

-----------------------------------------------------------------------------
(* blacklist.go: Blacklist.Allow *)

\* The locals of Allow before its loop: allow, user, category; returned is
\* set by a return inside the loop; geoCalls and catCalls count the calls of
\* ctx.GeoDB.City and ctx.IPSet.Contains.
EvalStart ==
    [allow |-> TRUE, user |-> Nil, category |-> Nil, returned |-> FALSE,
     geoCalls |-> 0, catCalls |-> 0]

\* return false
ReturnFalse(st) == [st EXCEPT !.allow = FALSE, !.returned = TRUE]

\* Mutant of ApplyMatch: a match sets allow to the opposite of the flag.
ApplyMatchInverted(st, item, match) ==
    IF match THEN [st EXCEPT !.allow = ~item.Negation] ELSE st

\* if match { allow = item.Negation }
ApplyMatch(st, item, match) ==
    IF match THEN [st EXCEPT !.allow = item.Negation] ELSE st

\* The Hostname branch: both loops run only when the lookup returned an error.
MatchHostname(item, d, x) ==
    LET fwd == LookupIP(d, item.Hostname)
        rev == LookupAddr(d, x)
    IN  \/ fwd.err /\ \E addr \in fwd.addrs : IPEqual(addr, x)
        \/ rev.err /\ \E name \in rev.names : ToLower(name) = item.Hostname

\* The Regexp branch: the loop runs only when the lookup returned an error.
MatchRegexp(item, d, x) ==
    LET rev == LookupAddr(d, x)
    IN  rev.err /\ \E name \in rev.names : RegexpMatch(item.Regexp[1], ToLower(name))

\* Mutant of GeofenceItem: the requester is looked up for every Geofence
\* rule, the location found for an earlier rule is not reused.
GeofenceItemLooksUpAgain(item, c, x, st) ==
    IF c.GeoDB = Nil THEN ReturnFalse(st)
    ELSE LET record == City(x)
             st1 == [st EXCEPT !.geoCalls = @ + 1]
         IN  IF record.err THEN ReturnFalse(st1)
             ELSE LET user == [Latitude |-> record.Latitude,
                               Longitude |-> record.Longitude,
                               Radius |-> record.AccuracyRadius * 1000]
                      boundsIntersect == Intersection(item.Geofence[1], user)
                      match == IF item.Negation
                               THEN HasBit(boundsIntersect, IsSuperset)
                               ELSE ~HasBit(boundsIntersect, IsDisjoint)
                  IN  IF match
                      THEN [st1 EXCEPT !.user = <<user>>, !.allow = item.Negation]
                      ELSE [st1 EXCEPT !.user = <<user>>]

\* Mutant of GeofenceItem: without a database the rule is skipped as not
\* matching, and the loop goes on.
GeofenceItemSkipsWithoutDB(item, c, x, st) ==
    IF c.GeoDB = Nil THEN st
    ELSE LET record == City(x)
         IN  IF record.err THEN ReturnFalse(st)
             ELSE LET user == [Latitude |-> record.Latitude,
                               Longitude |-> record.Longitude,
                               Radius |-> record.AccuracyRadius * 1000]
                      boundsIntersect == Intersection(item.Geofence[1], user)
                  IN  [st EXCEPT !.user = <<user>>,
                                 !.allow = IF item.Negation
                                           THEN (IF HasBit(boundsIntersect, IsSuperset) THEN TRUE ELSE @)
                                           ELSE (IF ~HasBit(boundsIntersect, IsDisjoint) THEN FALSE ELSE @)]

\* The Geofence branch.
GeofenceItem(item, c, x, st) ==
    IF c.GeoDB = Nil THEN ReturnFalse(st)
    ELSE LET lookup == st.user = Nil
             record == City(x)
             st1 == IF lookup THEN [st EXCEPT !.geoCalls = @ + 1] ELSE st
         IN  IF lookup /\ record.err THEN ReturnFalse(st1)
             ELSE LET user == IF lookup
                              THEN [Latitude |-> record.Latitude,
                                    Longitude |-> record.Longitude,
                                    Radius |-> record.AccuracyRadius * 1000]
                              ELSE st.user[1]
                      bounds == item.Geofence[1]
                      boundsIntersect == Intersection(bounds, user)
                      match == IF item.Negation
                               THEN HasBit(boundsIntersect, IsSuperset)
                               ELSE ~HasBit(boundsIntersect, IsDisjoint)
                  IN  ApplyMatch([st1 EXCEPT !.user = <<user>>], item, match)

\* The match computed by the IPCat branch when the address has a category.
MatchIPCat(item, category) ==
    RegexpMatch(GlobToRegexp(ToLower(item.IPCat)), ToLower(category.Name))

\* The IPCat branch: whatever the match, the branch ends in return false.
IPCatItem(item, c, x, st) ==
    IF c.IPSet = Nil THEN ReturnFalse(st)
    ELSE LET lookup == st.category = Nil /\ To4(x) # Nil
             found == IPSetContains(c.IPSet[1], x)
             st1 == IF lookup THEN [st EXCEPT !.catCalls = @ + 1] ELSE st
         IN  IF lookup /\ found.err THEN ReturnFalse(st1)
             ELSE LET category == IF lookup THEN found.interval ELSE st.category
                  IN  ReturnFalse([st1 EXCEPT !.category = category])

\* One iteration of the loop of Allow.
AllowItem(item, c, d, x, st) ==
    IF item.All THEN ApplyMatch(st, item, TRUE)
    ELSE IF item.Network # Nil THEN ApplyMatch(st, item, NetContains(item.Network[1], x))
    ELSE IF item.IP # Nil THEN ApplyMatch(st, item, IPEqual(item.IP[1], x))
    ELSE IF item.Hostname # Nil THEN ApplyMatch(st, item, MatchHostname(item, d, x))
    ELSE IF item.Regexp # Nil THEN ApplyMatch(st, item, MatchRegexp(item, d, x))
    ELSE IF item.Geofence # Nil THEN GeofenceItem(item, c, x, st)
    ELSE IF item.IPCat # Nil THEN IPCatItem(item, c, x, st)
    ELSE ApplyMatch(st, item, FALSE)

RECURSIVE AllowFrom(_, _, _, _, _, _)
AllowFrom(l, c, d, x, i, st) ==
    IF i > Len(l) \/ st.returned THEN st
    ELSE AllowFrom(l, c, d, x, i + 1, AllowItem(l[i], c, d, x, st))

\* func (b *Blacklist) Allow(ctx *BlacklistContext, ip net.IP) bool, with the
\* final values of its locals
AllowRun(l, c, d, x) == AllowFrom(l, c, d, x, 1, EvalStart)

Allow(l, c, d, x) == AllowRun(l, c, d, x).allow

-----------------------------------------------------------------------------
(* The evaluator specification: a blacklist is built rule by rule with     *)
(* Blacklist.Add and evaluated by Allow for a requester, a context and a   *)
(* resolver drawn from the sets above.                                     *)

GeoIdle == mi = Nil /\ tu = Nil /\ isect = Nil
ParseIdle == text = Nil /\ parsed = Nil /\ rendered = Nil /\ reparsed = Nil
GateIdle ==
    /\ db = Nil /\ pc = Nil /\ req = Nil /\ entry = Nil /\ ret = Nil
    /\ db0 = Nil

InitAllow ==
    /\ list = <<>>
    /\ ip \in IPs
    /\ ctx \in Contexts
    /\ dns \in DNSEnvs
    /\ out = Nil
    /\ GeoIdle
    /\ GateIdle
    /\ ParseIdle

\* func (b *Blacklist) Add(item *BlacklistRule)
Add(l, item) == Append(l, item)

AddRule ==
    /\ out = Nil
    /\ Len(list) < MaxRules
    /\ \E item \in Rules : list' = Add(list, item)
    /\ UNCHANGED <<ip, ctx, dns, out, geoVars, gateVars, parseVars>>

Evaluate ==
    /\ out = Nil
    /\ out' = <<AllowRun(list, ctx, dns, ip)>>
    /\ UNCHANGED <<list, ip, ctx, dns, geoVars, gateVars, parseVars>>

NextAllow == AddRule \/ Evaluate

SpecAllow == InitAllow /\ [][NextAllow]_vars

-----------------------------------------------------------------------------
(* The geofence specification: Intersection applied to every pair of       *)
(* fences of a small grid of centres and radii.                            *)

EvalIdle == list = Nil /\ ip = Nil /\ ctx = Nil /\ dns = Nil /\ out = Nil

\* radii in metres: a point, the parser's default, and radii below, equal to
\* and above the distance of one degree
Radii == {0, 25, 50000, MetersPerDegree, 150000}

Fences == [Latitude : 0..MaxLat, Longitude : {0}, Radius : Radii]

InitGeo ==
    /\ mi \in Fences
    /\ tu \in Fences
    /\ isect = Nil
    /\ EvalIdle
    /\ GateIdle
    /\ ParseIdle

Intersect ==
    /\ isect = Nil
    /\ isect' = <<Intersection(mi, tu)>>
    /\ UNCHANGED <<mi, tu, evalVars, gateVars, parseVars>>

NextGeo == Intersect

SpecGeo == InitGeo /\ [][NextGeo]_vars

-----------------------------------------------------------------------------
(* Claims about Allow (SpecAllow) *)

Evaluated == out # Nil
Allowed == out[1].allow

IsWildcard(rule) == rule.All
IsNetwork(rule) == ~rule.All /\ rule.Network # Nil
IsAddress(rule) == ~rule.All /\ rule.Network = Nil /\ rule.IP # Nil
IsPlain(rule) == IsWildcard(rule) \/ IsNetwork(rule) \/ IsAddress(rule)
IsGeofenceRule(rule) ==
    /\ ~IsPlain(rule) /\ rule.Hostname = Nil /\ rule.Regexp = Nil
    /\ rule.Geofence # Nil
IsCategoryRule(rule) ==
    /\ ~IsPlain(rule) /\ rule.Hostname = Nil /\ rule.Regexp = Nil
    /\ rule.Geofence = Nil /\ rule.IPCat # Nil

\* Whether a Wildcard, Network or Address rule matches the requester, read
\* off the rule and the address; a Category rule is taken as not matching.
PlainMatches(rule, x) ==
    \/ IsWildcard(rule)
    \/ IsNetwork(rule) /\ x.fam = 4
         /\ rule.Network[1].n <= x.n
         /\ x.n - rule.Network[1].n < Pow2(32 - rule.Network[1].len)
    \/ IsAddress(rule) /\ rule.IP[1] = x

\* Last match wins: allow exactly when no rule matches or the last rule in
\* list order that matches is negated.
LastMatchAllows(l, x) ==
    LET hits == {i \in DOMAIN l : PlainMatches(l[i], x)}
    IN  hits = {} \/ l[CHOOSE i \in hits : \A j \in hits : j <= i].Negation

\* C1: for a RuleSet of Wildcard, Network and Address rules only, Allow
\* returns allow exactly when no rule matches the IP or the last matching
\* rule is negated; the empty RuleSet allows, ["*"] denies, and
\* ["!*", "10.0.0.0/8"] denies 10.1.2.3 and allows 8.8.8.8.
C1_LastMatchWins ==
    Evaluated =>
        /\ (\A i \in DOMAIN list : IsPlain(list[i]))
              => (Allowed <=> LastMatchAllows(list, ip))
        /\ list = <<>> => Allowed
        /\ list = <<RuleAll>> => ~Allowed
        /\ (list = <<Negated(RuleAll), RuleNetwork>> /\ ip = IPTor) => ~Allowed
        /\ (list = <<Negated(RuleAll), RuleNetwork>> /\ ip = IPRes) => Allowed

C1_Witness ==
    /\ Evaluated
    /\ list = <<Negated(RuleAll), RuleNetwork>>
    /\ ip = IPTor
    /\ ~Allowed

\* C2: with no geolocation resolver, Allow denies for every RuleSet that
\* holds a Geofence rule, at any position, negated or not, whatever the
\* other rules are.
C2_NoGeoDBDenies ==
    (/\ Evaluated
     /\ ctx.GeoDB = Nil
     /\ \E i \in DOMAIN list : IsGeofenceRule(list[i]))
        => ~Allowed

C2_Witness ==
    /\ Evaluated
    /\ ctx.GeoDB = Nil
    /\ list = <<Negated(RuleGeofence), Negated(RuleAll)>>
    /\ ~Allowed

HasNoCategory(x) == To4(x) = Nil \/ IPSetContains(ctx.IPSet[1], x).interval = Nil
ClassifierWorks == ctx.IPSet # Nil /\ ~IPSetContains(ctx.IPSet[1], ip).err

\* C3: with a working classifier, a Category rule evaluated for an IP that
\* has no category does not match and does not end the evaluation: the
\* result is last-match-wins over the other rules, and a RuleSet of one
\* Category rule allows such an IP.
C3_NoCategoryContinues ==
    (/\ Evaluated
     /\ ClassifierWorks
     /\ HasNoCategory(ip)
     /\ \E i \in DOMAIN list : IsCategoryRule(list[i])
     /\ \A i \in DOMAIN list : IsCategoryRule(list[i]) \/ IsPlain(list[i]))
        => (Allowed <=> LastMatchAllows(list, ip))

\* The label the classifier gives the requester ("" when it has none).
LabelOf(x) ==
    IF HasNoCategory(x) THEN <<>> ELSE IPSetContains(ctx.IPSet[1], x).interval[1].Name

\* C4: with a working classifier, a RuleSet of one Category rule decides by
\* the case-insensitive glob match of the label: "ipcat tor*" denies an IP
\* labelled "Tor Exit Node" and allows an IP labelled "Residential".
C4_CategoryDecides ==
    (/\ Evaluated
     /\ ClassifierWorks
     /\ list = <<RuleIPCat>>)
        => /\ LabelOf(ip) = LabelTor => ~Allowed
           /\ LabelOf(ip) = LabelRes => Allowed

\* C5: a Hostname rule matches when the forward lookup of its hostname
\* succeeds and returns the requester IP, or the reverse lookup succeeds and
\* returns the hostname; a Pattern rule matches when the reverse lookup
\* succeeds and returns a name matching the expression.  So [hostname h]
\* denies an IP that h resolves to.
C5_NameRulesMatchOnSuccess ==
    Evaluated =>
        /\ (/\ list = <<RuleHostname>>
            /\ \/ dns.fwd = "ok" /\ ip \in ForwardZone(RuleHostname.Hostname)
               \/ dns.rev = "ok" /\ \E name \in ReverseZone(ip) :
                                        ToLower(name) = RuleHostname.Hostname)
              => ~Allowed
        /\ (/\ list = <<RuleRegexp>>
            /\ dns.rev = "ok"
            /\ \E name \in ReverseZone(ip) :
                   RegexpMatch(RuleRegexp.Regexp[1], ToLower(name)))
              => ~Allowed

GeoWorks == ctx.GeoDB # Nil /\ ~City(ip).err

\* The requester's resolved region.
UserFence(x) ==
    [Latitude |-> City(x).Latitude, Longitude |-> City(x).Longitude,
     Radius |-> City(x).AccuracyRadius * 1000]

\* C7: with a working resolver, the RuleSet of one non-negated Geofence rule
\* denies every requester whose region overlaps the fence (distance between
\* the centres smaller than the sum of the radii) and allows every requester
\* whose region is disjoint from it.
C7_FenceDeniesOverlap ==
    (/\ Evaluated
     /\ GeoWorks
     /\ list = <<RuleGeofence>>)
        => (~Allowed <=>
               Distance(RuleGeofence.Geofence[1], UserFence(ip))
                   < RuleGeofence.Geofence[1].Radius + UserFence(ip).Radius)

\* C8: with a working resolver, under ["*", negated fence F] a requester
\* whose region lies fully inside F (radius(F) - radius(user) > distance) is
\* allowed and every other requester is denied.
C8_NegatedFenceReallows ==
    (/\ Evaluated
     /\ GeoWorks
     /\ list = <<RuleAll, Negated(RuleGeofence)>>)
        => (Allowed <=>
               RuleGeofence.Geofence[1].Radius - UserFence(ip).Radius
                   > Distance(RuleGeofence.Geofence[1], UserFence(ip)))

IsNameRule(rule) ==
    /\ ~IsPlain(rule)
    /\ rule.Hostname # Nil \/ rule.Regexp # Nil

\* C15: a failed forward or reverse lookup makes a Hostname or Pattern rule
\* not match and nothing more: Allow does not return early and the result
\* is last-match-wins over the other rules.
C15_FailedLookupIsNoMatch ==
    (/\ Evaluated
     /\ dns.fwd # "ok"
     /\ dns.rev # "ok"
     /\ \E i \in DOMAIN list : IsNameRule(list[i])
     /\ \A i \in DOMAIN list : IsNameRule(list[i]) \/ IsPlain(list[i]))
        => /\ ~out[1].returned
           /\ Allowed <=> LastMatchAllows(list, ip)

\* C18: one call of Allow looks the requester up in the geolocation
\* database at most once and in the category set at most once, and not at
\* all when the RuleSet holds no rule of that kind.
C18_LookupsAtMostOnce ==
    Evaluated =>
        /\ out[1].geoCalls <= 1
        /\ out[1].catCalls <= 1
        /\ (\A i \in DOMAIN list : ~IsGeofenceRule(list[i])) => out[1].geoCalls = 0
        /\ (\A i \in DOMAIN list : ~IsCategoryRule(list[i])) => out[1].catCalls = 0

C18_Witness ==
    /\ Evaluated
    /\ list = <<RuleGeofence, Negated(RuleGeofence)>>
    /\ ctx.GeoDB # Nil
    /\ ip = IPTor
    /\ ~out[1].returned
    /\ out[1].geoCalls = 1

-----------------------------------------------------------------------------
(* Claims about Intersection (SpecGeo) *)

\* C16: for fences with non-negative radii, Intersection(a, b) and
\* Intersection(b, a) agree on the Disjoint bit, and one has the Subset bit
\* exactly when the other has the Superset bit.
C16_SwapInverts ==
    isect # Nil =>
        LET ab == isect[1]
            ba == Intersection(tu, mi)
        IN  /\ HasBit(ab, IsDisjoint) <=> HasBit(ba, IsDisjoint)
            /\ HasBit(ab, IsSubset) <=> HasBit(ba, IsSuperset)
            /\ HasBit(ab, IsSuperset) <=> HasBit(ba, IsSubset)

C16_Witness ==
    /\ isect # Nil
    /\ mi.Radius - tu.Radius > Distance(mi, tu)
    /\ mi.Latitude # tu.Latitude

\* C6: Intersection(a, b) has the Disjoint bit exactly when the distance
\* between the centres is at least radius(a) + radius(b).
C6_DisjointIffApart ==
    isect # Nil =>
        (HasBit(isect[1], IsDisjoint) <=> Distance(mi, tu) >= mi.Radius + tu.Radius)

-----------------------------------------------------------------------------
(* ShotHandler.Access: the access gate.  Every request is its own          *)
(* goroutine; the store is read by DB.Get and written by entry.Update, and *)
(* everything between the two works on the request's own copy of the entry.*)

Reqs == 1..NumReqs

\* The remote addresses of the model: "host:port" of each requester, an
\* address without a port (net.SplitHostPort fails) and a host that is not
\* an IP address (net.ParseIP returns nil).
RemoteAddrs ==
    {[kind |-> "ok", host |-> <<x>>] : x \in IPs}
        \cup {[kind |-> "noport", host |-> Nil], [kind |-> "nothost", host |-> Nil]}

\* What a granted entry serves: an uploaded file (URL is ""), a redirect to
\* its URL, or its URL through the reverse proxy.
Targets ==
    {[URL |-> Nil, Redirect |-> FALSE],
     [URL |-> <<"u">>, Redirect |-> TRUE],
     [URL |-> <<"u">>, Redirect |-> FALSE]}

\* type ZerodropEntry struct: the fields Access and ServeHTTP read and write
NewEntry(train, blacklist, expire, target) ==
    [AccessTrain |-> train, AccessBlacklist |-> blacklist,
     AccessCount |-> 0, AccessBlacklistCount |-> 0,
     AccessExpire |-> expire, AccessExpireCount |-> 1,
     URL |-> target.URL, Redirect |-> target.Redirect]

InitBlacklists == {<<>>, <<RuleAll>>, <<Negated(RuleAll), RuleNetwork>>}

InitEntries ==
    {NewEntry(train, blacklist, expire, target) :
        train \in BOOLEAN, blacklist \in InitBlacklists, expire \in BOOLEAN,
        target \in Targets}

\* The contexts NewShotHandler builds: no database, or both databases.
GateContexts == {[GeoDB |-> Nil, IPSet |-> Nil], [GeoDB |-> <<"geodb">>, IPSet |-> <<"ipcat">>]}

\* entry.IsExpired(): the access limit is set and has been reached
IsExpired(e) == e.AccessExpire /\ e.AccessCount >= e.AccessExpireCount

\* a.DB.Get(name): a copy of the committed entry, or not found
Get(store) == store

\* entry.Update(): the whole entry replaces the committed one, or the store
\* reports an error and keeps what it had
Update(store, e, ok) == IF ok THEN <<e>> ELSE store

\* The rules a training request adds to its copy of the entry.
TrainComment == <<"Automatically added by training on ", "date">>

TrainingRules(c, x) ==
    <<[EmptyRule EXCEPT !.Comment = TrainComment], [EmptyRule EXCEPT !.IP = <<x>>]>>
        \o (IF c.GeoDB # Nil /\ ~City(x).err
            THEN <<[EmptyRule EXCEPT !.Geofence =
                       <<[Latitude |-> City(x).Latitude,
                          Longitude |-> City(x).Longitude,
                          Radius |-> City(x).AccuracyRadius * 1000]>>]>>
            ELSE <<>>)

InitGate ==
    /\ db \in {Nil} \cup {<<e>> : e \in InitEntries}
    /\ db0 = db
    /\ ctx \in GateContexts
    /\ dns = [fwd |-> "ok", rev |-> "ok"]
    /\ pc = [r \in Reqs |-> "idle"]
    /\ req = [r \in Reqs |-> Nil]
    /\ entry = [r \in Reqs |-> Nil]
    /\ ret = [r \in Reqs |-> Nil]
    /\ list = Nil /\ ip = Nil /\ out = Nil
    /\ GeoIdle
    /\ ParseIdle

\* func (a *ShotHandler) ServeHTTP: the not-found handler when Access
\* returned nil, else the dispatch the entry asks for.
ServeHTTP(result) ==
    IF result = Nil THEN "notfound"
    ELSE IF result[1].URL = Nil THEN "file"
    ELSE IF result[1].Redirect THEN "redirect"
    ELSE "proxy"

\* Mutant of Returned: the expired branch lacks its return nil and falls
\* through to the grant.
ReturnedExpiredFallsThrough(r, result, branch, commit, allowCalls) ==
    LET res == IF branch = "expired" THEN entry[r] ELSE result
    IN  /\ pc' = [pc EXCEPT ![r] = "done"]
        /\ ret' = [ret EXCEPT ![r] =
                      <<[granted |-> res # Nil, branch |-> branch, commit |-> commit,
                         allowCalls |-> allowCalls, response |-> ServeHTTP(res)]>>]

\* What Access returned (result: nil, or the entry when access is granted),
\* the branch it took, what entry.Update answered ("none" when the branch
\* does not commit), the number of calls of Allow it made, and the response
\* ServeHTTP writes for that result.
Returned(r, result, branch, commit, allowCalls) ==
    /\ pc' = [pc EXCEPT ![r] = "done"]
    /\ ret' = [ret EXCEPT ![r] =
                  <<[granted |-> result # Nil, branch |-> branch, commit |-> commit,
                     allowCalls |-> allowCalls, response |-> ServeHTTP(result)]>>]

\* The requesters whose training request has been committed (history).
TrainedIPs ==
    {req[q][1].host[1] : q \in {k \in DOMAIN pc :
        /\ pc[k] = "done"
        /\ ret[k][1].branch = "training"
        /\ ret[k][1].commit = "ok"}}

\* A request as it arrives: its remote address, and (history) the requesters
\* whose training had been committed before it arrived.
Arrival(addr) == <<[kind |-> addr.kind, host |-> addr.host, after |-> TrainedIPs]>>

Commit(ok) == IF ok THEN "ok" ELSE "err"

\* Lines 72-84: the remote address cannot be parsed.
AccessBadAddr(r) ==
    /\ pc[r] = "idle"
    /\ \E addr \in RemoteAddrs :
          /\ addr.kind # "ok"
          /\ req' = [req EXCEPT ![r] = Arrival(addr)]
    /\ Returned(r, Nil, "badaddr", "none", 0)
    /\ UNCHANGED <<db, db0, entry, ctx, dns, list, ip, out, geoVars, parseVars>>

\* Lines 86-89: no entry of that name.
AccessMissing(r) ==
    /\ pc[r] = "idle"
    /\ Get(db) = Nil
    /\ \E addr \in RemoteAddrs :
          /\ addr.kind = "ok"
          /\ req' = [req EXCEPT ![r] = Arrival(addr)]
    /\ Returned(r, Nil, "missing", "none", 0)
    /\ UNCHANGED <<db, db0, entry, ctx, dns, list, ip, out, geoVars, parseVars>>

\* Line 86: the request takes its copy of the entry.
AccessGet(r) ==
    /\ pc[r] = "idle"
    /\ Get(db) # Nil
    /\ \E addr \in RemoteAddrs :
          /\ addr.kind = "ok"
          /\ req' = [req EXCEPT ![r] = Arrival(addr)]
    /\ entry' = [entry EXCEPT ![r] = Get(db)]
    /\ pc' = [pc EXCEPT ![r] = "got"]
    /\ UNCHANGED <<db, db0, ret, ctx, dns, list, ip, out, geoVars, parseVars>>

ReqIP(r) == req[r][1].host[1]

\* Lines 91-117: training.
AccessTraining(r) ==
    /\ pc[r] = "got"
    /\ entry[r][1].AccessTrain
    /\ LET e == [entry[r][1] EXCEPT
                    !.AccessBlacklist = @ \o TrainingRules(ctx, ReqIP(r))]
       IN  \E ok \in BOOLEAN :
              /\ entry' = [entry EXCEPT ![r] = <<e>>]
              /\ db' = Update(db, e, ok)
              /\ Returned(r, Nil, "training", Commit(ok), 0)
    /\ UNCHANGED <<db0, req, ctx, dns, list, ip, out, geoVars, parseVars>>

\* Mutant of AccessExpired: the expired branch counts the request as an
\* access.
AccessExpiredCountsAccess(r) ==
    /\ pc[r] = "got"
    /\ ~entry[r][1].AccessTrain
    /\ IsExpired(entry[r][1])
    /\ LET e == [entry[r][1] EXCEPT !.AccessCount = @ + 1]
       IN  \E ok \in BOOLEAN :
              /\ entry' = [entry EXCEPT ![r] = <<e>>]
              /\ db' = Update(db, e, ok)
              /\ Returned(r, Nil, "expired", Commit(ok), 0)
    /\ UNCHANGED <<db0, req, ctx, dns, list, ip, out, geoVars, parseVars>>

\* Lines 119-124: the entry has expired.
AccessExpired(r) ==
    /\ pc[r] = "got"
    /\ ~entry[r][1].AccessTrain
    /\ IsExpired(entry[r][1])
    /\ LET e == [entry[r][1] EXCEPT !.AccessBlacklistCount = @ + 1]
       IN  \E ok \in BOOLEAN :
              /\ entry' = [entry EXCEPT ![r] = <<e>>]
              /\ db' = Update(db, e, ok)
              /\ Returned(r, Nil, "expired", Commit(ok), 0)
    /\ UNCHANGED <<db0, req, ctx, dns, list, ip, out, geoVars, parseVars>>

\* Lines 126-131: the blacklist denies the requester.
AccessBlacklisted(r) ==
    /\ pc[r] = "got"
    /\ ~entry[r][1].AccessTrain
    /\ ~IsExpired(entry[r][1])
    /\ ~Allow(entry[r][1].AccessBlacklist, ctx, dns, ReqIP(r))
    /\ LET e == [entry[r][1] EXCEPT !.AccessBlacklistCount = @ + 1]
       IN  \E ok \in BOOLEAN :
              /\ entry' = [entry EXCEPT ![r] = <<e>>]
              /\ db' = Update(db, e, ok)
              /\ Returned(r, Nil, "blacklisted", Commit(ok), 1)
    /\ UNCHANGED <<db0, req, ctx, dns, list, ip, out, geoVars, parseVars>>

\* Lines 133-136: access is granted.
AccessGranted(r) ==
    /\ pc[r] = "got"
    /\ ~entry[r][1].AccessTrain
    /\ ~IsExpired(entry[r][1])
    /\ Allow(entry[r][1].AccessBlacklist, ctx, dns, ReqIP(r))
    /\ LET e == [entry[r][1] EXCEPT !.AccessCount = @ + 1]
       IN  \E ok \in BOOLEAN :
              /\ entry' = [entry EXCEPT ![r] = <<e>>]
              /\ db' = Update(db, e, ok)
              /\ Returned(r, <<e>>, "granted", Commit(ok), 1)
    /\ UNCHANGED <<db0, req, ctx, dns, list, ip, out, geoVars, parseVars>>

Next ==
    \E r \in Reqs :
        \/ AccessBadAddr(r)
        \/ AccessMissing(r)
        \/ AccessGet(r)
        \/ AccessTraining(r)
        \/ AccessExpired(r)
        \/ AccessBlacklisted(r)
        \/ AccessGranted(r)

Spec == InitGate /\ [][Next]_vars

-----------------------------------------------------------------------------
(* Claims about the gate (Spec) *)

AllDone == \A r \in Reqs : pc[r] = "done"
AllCommitted == \A r \in Reqs : pc[r] = "done" /\ ret[r][1].commit = "ok"
DistinctIPs == \A r, q \in Reqs : r # q => req[r][1].host # req[q][1].host
Training == db0 # Nil /\ db0[1].AccessTrain

\* The number of Address rules of a blacklist.
RECURSIVE AddressRules(_)
AddressRules(l) ==
    IF l = <<>> THEN 0
    ELSE (IF IsAddress(Head(l)) THEN 1 ELSE 0) + AddressRules(Tail(l))

HasAddressRule(l, x) ==
    \E i \in DOMAIN l : IsAddress(l[i]) /\ ~l[i].Negation /\ l[i].IP[1] = x

\* C9: while the resource is in training mode every request is denied, and
\* once N requests from N distinct IPs have completed (each with its commit
\* accepted by the store) the committed RuleSet holds exactly N new Address
\* rules.
C9_TrainingAddsOnePerRequest ==
    Training =>
        /\ \A r \in Reqs : pc[r] = "done" => ~ret[r][1].granted
        /\ (AllCommitted /\ DistinctIPs)
              => AddressRules(db[1].AccessBlacklist)
                    = AddressRules(db0[1].AccessBlacklist) + NumReqs

\* C10: no interleaving loses an update: once all K requests to a resource
\* have completed (each with its commit accepted by the store), AccessCount
\* plus AccessBlacklistCount of a non-training resource has grown by K, and
\* the RuleSet of a training resource holds every requester's Address rule.
C10_NoLostUpdate ==
    (db0 # Nil /\ AllCommitted) =>
        IF db0[1].AccessTrain
        THEN \A r \in Reqs : HasAddressRule(db[1].AccessBlacklist, ReqIP(r))
        ELSE db[1].AccessCount + db[1].AccessBlacklistCount
                = db0[1].AccessCount + db0[1].AccessBlacklistCount + NumReqs

Done(r) == pc[r] = "done"

\* C11: a request whose commit (entry.Update) returned an error is denied:
\* Access never returns a granted entry for it, on any path.
C11_FailedCommitDenies ==
    \A r \in DOMAIN pc :
        (Done(r) /\ ret[r][1].commit = "err") => ~ret[r][1].granted

Denials == {"badaddr", "missing", "training", "expired", "blacklisted"}

\* C12: the response to a denied request does not depend on the reason of
\* the denial: any two denied requests get the same response, the not-found
\* response, and none reaches the file, redirect or proxy dispatch.
C12_DenialsLookAlike ==
    \A r, q \in DOMAIN pc :
        (/\ Done(r) /\ ret[r][1].branch \in Denials
         /\ Done(q) /\ ret[q][1].branch \in Denials)
            => /\ ret[r][1].response = ret[q][1].response
               /\ ret[r][1].response = "notfound"

C12_Witness ==
    \E r, q \in DOMAIN pc :
        /\ Done(r) /\ ret[r][1].branch = "badaddr"
        /\ Done(q) /\ ret[q][1].branch = "blacklisted"
        /\ ret[r][1].response = "notfound"
        /\ ret[q][1].response = "notfound"

\* The branch the gate takes for an entry and a requester, by precedence.
BranchOf(e, x) ==
    IF e.AccessTrain THEN "training"
    ELSE IF e.AccessExpire /\ e.AccessCount >= e.AccessExpireCount THEN "expired"
    ELSE IF ~AllowRun(e.AccessBlacklist, ctx, dns, x).allow THEN "blacklisted"
    ELSE "granted"

\* C17: a request to an existing resource takes exactly one branch, by the
\* precedence training, expired, RuleSet denial, grant.  On the entry it
\* read, training changes no counter and is the only branch that changes
\* the RuleSet; expired and RuleSet denial add one to AccessBlacklistCount
\* and leave AccessCount; grant adds one to AccessCount and leaves
\* AccessBlacklistCount; an expired entry is denied without Allow being
\* called; and the store then holds that entry or what it held before.
C17_OneBranchPerRequest ==
    [][\A r \in DOMAIN pc :
          (pc[r] = "got" /\ pc'[r] = "done") =>
              LET old == entry[r][1]
                  new == entry'[r][1]
                  res == ret'[r][1]
              IN  /\ res.branch = BranchOf(old, ReqIP(r))
                  /\ res.granted <=> res.branch = "granted"
                  /\ res.branch = "training" =>
                        /\ new.AccessCount = old.AccessCount
                        /\ new.AccessBlacklistCount = old.AccessBlacklistCount
                        /\ new.AccessBlacklist # old.AccessBlacklist
                  /\ res.branch \in {"expired", "blacklisted"} =>
                        /\ new.AccessCount = old.AccessCount
                        /\ new.AccessBlacklistCount = old.AccessBlacklistCount + 1
                        /\ new.AccessBlacklist = old.AccessBlacklist
                  /\ res.branch = "granted" =>
                        /\ new.AccessCount = old.AccessCount + 1
                        /\ new.AccessBlacklistCount = old.AccessBlacklistCount
                        /\ new.AccessBlacklist = old.AccessBlacklist
                  /\ res.branch = "expired" => res.allowCalls = 0
                  /\ db' = db \/ db' = <<new>>
      ]_vars

C17_Witness ==
    \E r, q \in DOMAIN pc :
        /\ Done(r) /\ ret[r][1].branch = "granted" /\ ret[r][1].commit = "ok"
        /\ Done(q) /\ ret[q][1].branch = "expired" /\ ret[q][1].commit = "ok"
        /\ db[1].AccessCount = 1
        /\ db[1].AccessBlacklistCount = 1

\* C20: for a resource with an access limit the number of granted requests
\* never exceeds AccessExpireCount, under any interleaving (counting only
\* the grants whose commit the store accepted).
C20_GrantsWithinLimit ==
    (db0 # Nil /\ db0[1].AccessExpire) =>
        Cardinality({r \in DOMAIN pc :
                        /\ Done(r)
                        /\ ret[r][1].granted
                        /\ ret[r][1].commit = "ok"}) <= db0[1].AccessExpireCount

-----------------------------------------------------------------------------
(* The training specification: a resource in training mode, one request    *)
(* more than in Spec, and the administrator switching training off.        *)

TrainReqs == 1..(NumReqs + 1)

InitTrain ==
    /\ db \in {<<NewEntry(TRUE, <<>>, expire, [URL |-> Nil, Redirect |-> FALSE])>> :
                  expire \in BOOLEAN}
    /\ db0 = db
    /\ ctx \in GateContexts
    /\ dns = [fwd |-> "ok", rev |-> "ok"]
    /\ pc = [r \in TrainReqs |-> "idle"]
    /\ req = [r \in TrainReqs |-> Nil]
    /\ entry = [r \in TrainReqs |-> Nil]
    /\ ret = [r \in TrainReqs |-> Nil]
    /\ list = Nil /\ ip = Nil /\ out = Nil
    /\ GeoIdle
    /\ ParseIdle

\* The administrator's "Stop Training": the committed entry leaves training
\* mode.
StopTraining ==
    /\ db # Nil
    /\ db[1].AccessTrain
    /\ db' = <<[db[1] EXCEPT !.AccessTrain = FALSE]>>
    /\ UNCHANGED <<db0, pc, req, entry, ret, ctx, dns, list, ip, out, geoVars, parseVars>>

NextTrain ==
    \/ StopTraining
    \/ \E r \in TrainReqs :
          \/ AccessBadAddr(r)
          \/ AccessGet(r)
          \/ AccessTraining(r)
          \/ AccessExpired(r)
          \/ AccessBlacklisted(r)
          \/ AccessGranted(r)

SpecTrain == InitTrain /\ [][NextTrain]_vars

\* C19: once a training request from IP x has been committed, every request
\* from x that arrives later is denied, while training stays on and after it
\* is switched off, whatever training requests other IPs make in between.
C19_TrainedStaysDenied ==
    \A r \in DOMAIN pc :
        (/\ Done(r)
         /\ req[r][1].kind = "ok"
         /\ req[r][1].host[1] \in req[r][1].after)
            => ~ret[r][1].granted

-----------------------------------------------------------------------------
(* blacklist.go: ParseBlacklist and the String methods.  The library       *)
(* functions they call are computed on character sequences.                *)

Digits == <<"0", "1", "2", "3", "4", "5", "6", "7", "8", "9">>
DigitSet == {Digits[i] : i \in DOMAIN Digits}
LetterSet == {Upper[i] : i \in DOMAIN Upper} \cup {Lower[i] : i \in DOMAIN Lower}
SignSet == {"-", "+"}
\* the white space strings.TrimSpace removes (a line holds no newline)
SpaceSet == {" ", "\t"}

\* F(v) with v evaluated once: a local variable of the Go code, assigned
\* and then read
With(v, F(_)) == CHOOSE r \in {F(x) : x \in {v}} : TRUE

\* strings.IndexByte, counting from 1: 0 when c does not occur (Go: -1)
IndexByte(s, c) ==
    IF \E i \in DOMAIN s : s[i] = c
    THEN CHOOSE i \in DOMAIN s : s[i] = c /\ \A j \in 1..(i - 1) : s[j] # c
    ELSE 0

\* strings.Split(s, sep) for a one-character separator
RECURSIVE Split(_, _)
Split(s0, sep) ==
    With(s0, LAMBDA s : With(IndexByte(s, sep), LAMBDA i :
        IF i = 0 THEN <<s>>
        ELSE <<SubSeq(s, 1, i - 1)>> \o Split(SubSeq(s, i + 1, Len(s)), sep)))

\* strings.Join(items, sep)
RECURSIVE Join(_, _)
Join(items0, sep) ==
    With(items0, LAMBDA items :
        IF items = <<>> THEN <<>>
        ELSE IF Len(items) = 1 THEN items[1]
        ELSE items[1] \o sep \o Join(Tail(items), sep))

\* strings.TrimSpace
TrimSpace(s0) ==
    With(s0, LAMBDA s : With({i \in DOMAIN s : s[i] \notin SpaceSet}, LAMBDA keep :
        IF keep = {} THEN <<>>
        ELSE SubSeq(s, CHOOSE i \in keep : \A j \in keep : i <= j,
                       CHOOSE i \in keep : \A j \in keep : j <= i)))

\* s[from:], counting from 0 as Go does
SliceFrom(s, from) == SubSeq(s, from + 1, Len(s))

\* the value of a run of decimal digits
RECURSIVE Atoi(_)
Atoi(s0) ==
    With(s0, LAMBDA s :
        IF s = <<>> THEN 0
        ELSE 10 * Atoi(SubSeq(s, 1, Len(s) - 1))
             + (CHOOSE v \in 0..9 : Digits[v + 1] = s[Len(s)]))

\* strconv.Itoa
RECURSIVE Itoa(_)
Itoa(n0) ==
    With(n0, LAMBDA n :
        IF n < 0 THEN <<"-">> \o Itoa(-n)
        ELSE IF n < 10 THEN <<Digits[n + 1]>>
        ELSE Itoa(n \div 10) \o <<Digits[(n % 10) + 1]>>)

\* strconv.ParseFloat(s, 64) of a signed whole numeral, which is every
\* numeral of the model; it cannot fail on what geofenceRegexp captured
ParseFloat(s) ==
    IF s[1] = "-" THEN -Atoi(Tail(s))
    ELSE IF s[1] = "+" THEN Atoi(Tail(s))
    ELSE Atoi(s)

\* strconv.FormatFloat(x, 'f', -1, 64) of a whole number
FormatFloat(x) == Itoa(x)

\* strconv.Quote of a string of letters
Quote(s) == <<"\"">> \o s \o <<"\"">>

\* the end (exclusive) of the longest run of characters of set (RunIn) or
\* outside set (RunNotIn) that starts at position i
RunIn(s, i, set) ==
    CHOOSE j \in i..(Len(s) + 1) :
        /\ \A k \in i..(j - 1) : s[k] \in set
        /\ j = Len(s) + 1 \/ s[j] \notin set
RunNotIn(s, i, set) ==
    CHOOSE j \in i..(Len(s) + 1) :
        /\ \A k \in i..(j - 1) : s[k] \notin set
        /\ j = Len(s) + 1 \/ s[j] \in set

\* [-+]?[0-9]+ at position i: its end (exclusive), or 0 when it does not
\* match.  The numerals of the model have no decimal point.
NumeralEnd(s, i) ==
    With(IF i <= Len(s) /\ s[i] \in SignSet THEN i + 1 ELSE i, LAMBDA d :
    With(IF d <= Len(s) + 1 THEN RunIn(s, d, DigitSet) ELSE d, LAMBDA e :
        IF e > d THEN e ELSE 0))

\* geofenceRegexp.FindStringSubmatch(s): Nil when s does not match, else
\* <<the four groups>>.  Every piece of the expression must extend to the
\* first character the next piece can start with, so the match is the greedy
\* scan.
geofenceRegexp(s0) ==
    With(s0, LAMBDA s :
    With(NumeralEnd(s, 1), LAMBDA latEnd :
    With(IF latEnd = 0 THEN 0 ELSE RunNotIn(s, latEnd, SignSet \cup DigitSet),
         LAMBDA sepEnd :
    With(IF sepEnd = 0 \/ sepEnd = latEnd THEN 0 ELSE NumeralEnd(s, sepEnd),
         LAMBDA lngEnd :
        IF lngEnd = 0 THEN Nil
        ELSE IF lngEnd = Len(s) + 1
        THEN <<[lat |-> SubSeq(s, 1, latEnd - 1),
                lng |-> SubSeq(s, sepEnd, lngEnd - 1),
                radius |-> <<>>, units |-> <<>>]>>
        ELSE With(RunNotIn(s, lngEnd, DigitSet), LAMBDA gapEnd :
             With(RunIn(s, gapEnd, DigitSet), LAMBDA radEnd :
             With(RunIn(s, radEnd, LetterSet), LAMBDA unitEnd :
                 IF radEnd > gapEnd /\ RunNotIn(s, unitEnd, DigitSet) = Len(s) + 1
                 THEN <<[lat |-> SubSeq(s, 1, latEnd - 1),
                         lng |-> SubSeq(s, sepEnd, lngEnd - 1),
                         radius |-> SubSeq(s, gapEnd, radEnd - 1),
                         units |-> SubSeq(s, radEnd, unitEnd - 1)]>>
                 ELSE Nil)))))))

\* var geofenceUnits: the factor of a unit as <<numerator, denominator>>,
\* Nil for a unit that is not in the map
geofenceUnits(units) ==
    IF units = <<>> \/ units = <<"m">> THEN <<(<<1, 1>>)>>
    ELSE IF units = <<"k", "m">> THEN <<(<<1000, 1>>)>>
    ELSE IF units = <<"m", "i">> THEN <<(<<1609, 1>>)>>
    ELSE IF units = <<"f", "t">> THEN <<(<<1609, 5280>>)>>
    ELSE Nil

\* regexp.Compile(src): Nil for a syntax error, else <<the expression>> in
\* the form RegexpMatch takes.  The expressions of the model are written
\* with literal letters, digits and "-", the escaped dot and ".*"; the one
\* malformed expression is a group that is not closed.
RECURSIVE Compile(_)
Compile(src0) ==
    With(src0, LAMBDA src :
        IF src = <<>> THEN <<(<<>>)>>
        ELSE With(IF Len(src) >= 2 /\ src[1] = "\\" /\ src[2] = "." THEN <<3, ".">>
                  ELSE IF Len(src) >= 2 /\ src[1] = "." /\ src[2] = "*" THEN <<3, ".*">>
                  ELSE IF src[1] \in LetterSet \cup DigitSet \cup {"-"} THEN <<2, src[1]>>
                  ELSE Nil,
                  LAMBDA head :
             IF head = Nil THEN Nil
             ELSE With(Compile(SubSeq(src, head[1], Len(src))), LAMBDA rest :
                      IF rest = Nil THEN Nil ELSE <<(<<head[2]>> \o rest[1])>>)))

\* err.Error() of regexp.Compile for a group that is not closed (without the
\* back quotes Go writes around the expression)
CompileError(src) == <<"e", "r", "r", "o", "r", " ", "p", "a", "r", "s", "i", "n", "g", " ", "r", "e", "g", "e", "x", "p", ":", " ", "m", "i", "s", "s", "i", "n", "g", " ", "c", "l", "o", "s", "i", "n", "g", " ", ")", ":", " ">> \o src

\* Regexp.String(): the source text the expression was compiled from
RECURSIVE RegexpString(_)
RegexpString(re0) ==
    With(re0, LAMBDA re :
        IF re = <<>> THEN <<>>
        ELSE (IF re[1] = "." THEN <<"\\", ".">> ELSE IF re[1] = ".*" THEN <<".", "*">> ELSE <<re[1]>>)
             \o RegexpString(Tail(re)))

\* net.ParseIP: Nil or <<address>>.  IPv4 is the dotted quad; the IPv6
\* addresses of the model are :: and ::1, in their short and long spellings.
ParseIP(s) ==
    With(Split(s, "."), LAMBDA parts :
        IF /\ Len(parts) = 4
           /\ \A i \in 1..4 :
                  /\ parts[i] # <<>> /\ Len(parts[i]) <= 3
                  /\ \A k \in DOMAIN parts[i] : parts[i][k] \in DigitSet
                  /\ Atoi(parts[i]) <= 255
        THEN <<IPv4(Atoi(parts[1]), Atoi(parts[2]), Atoi(parts[3]), Atoi(parts[4]))>>
        ELSE IF s = <<":", ":", "1">> \/ s = <<"0", ":", "0", ":", "0", ":", "0", ":", "0", ":", "0", ":", "0", ":", "1">> THEN <<IPv6Loopback>>
        ELSE IF s = <<":", ":">> \/ s = <<"0", ":", "0", ":", "0", ":", "0", ":", "0", ":", "0", ":", "0", ":", "0">> THEN <<[fam |-> 6, n |-> 0]>>
        ELSE Nil)

\* IP.String()
IPString(x) ==
    IF x.fam = 4
    THEN Itoa(x.n \div Pow2(24)) \o <<".">> \o Itoa((x.n \div Pow2(16)) % 256) \o <<".">>
         \o Itoa((x.n \div Pow2(8)) % 256) \o <<".">> \o Itoa(x.n % 256)
    ELSE IF x.n = 0 THEN <<":", ":">> ELSE <<":", ":", "1">>

\* net.ParseCIDR: Nil for an error, else <<network>> with the address masked
\* to the prefix length.  An IPv6 address of the model is below 2, so a
\* prefix shorter than 128 bits masks it to ::.
ParseCIDR(s) ==
    With(IndexByte(s, "/"), LAMBDA i :
    With(ParseIP(SubSeq(s, 1, i - 1)), LAMBDA addr :
    With(SubSeq(s, i + 1, Len(s)), LAMBDA mask :
        IF i = 0 \/ addr = Nil \/ mask = <<>> \/ Len(mask) > 3
           \/ \E k \in DOMAIN mask : mask[k] \notin DigitSet
        THEN Nil
        ELSE With(Atoi(mask), LAMBDA ones :
            IF ones > (IF addr[1].fam = 4 THEN 32 ELSE 128) THEN Nil
            ELSE IF addr[1].fam = 4
            THEN <<[fam |-> 4, len |-> ones,
                    n |-> (addr[1].n \div Pow2(32 - ones)) * Pow2(32 - ones)]>>
            ELSE <<[fam |-> 6, len |-> ones,
                    n |-> IF ones = 128 THEN addr[1].n ELSE 0]>>))))

\* IPNet.String()
IPNetString(network) ==
    IPString([fam |-> network.fam, n |-> network.n]) \o <<"/">> \o Itoa(network.len)

\* var lat, lng, radius float64 = 0, 0, 25
DefaultRadius == 25

\* The geofence branch of ParseBlacklist for the text after "@"
ParseGeofence(item, arg) ==
    With(geofenceRegexp(arg), LAMBDA matches :
        IF matches = Nil
        THEN [item EXCEPT !.Comment = <<"E", "r", "r", "o", "r", ":", " ">> \o arg \o
                  <<":", " ", "i", "n", "v", "a", "l", "i", "d", " ", "f", "o", "r", "m", "a", "t", ":", " ", "m", "u", "s", "t", " ", "b", "e", " ", "<", "l", "n", "g", ">", ",", " ", "<", "l", "n", "g", ">", " ", "(", "<", "r", "a", "d", "i", "u", "s", ">", "<", "u", "n", "i", "t", ">", ")", "?">>]
        ELSE With(ToLower(matches[1].units), LAMBDA units :
             With(geofenceUnits(units), LAMBDA factor :
                 IF factor = Nil
                 THEN [item EXCEPT !.Comment = <<"E", "r", "r", "o", "r", ":", " ">> \o arg \o
                           <<":", " ", "i", "n", "v", "a", "l", "i", "d", " ", "r", "a", "d", "i", "a", "l", " ", "u", "n", "i", "t", "s", ":", " ">> \o Quote(units)]
                 ELSE [item EXCEPT !.Geofence =
                          <<[Latitude |-> ParseFloat(matches[1].lat),
                             Longitude |-> ParseFloat(matches[1].lng),
                             Radius |-> ((IF matches[1].radius # <<>>
                                          THEN ParseFloat(matches[1].radius)
                                          ELSE DefaultRadius)
                                         * factor[1][1]) \div factor[1][2]]>>])))

\* The regular expression branch of ParseBlacklist for the text after "~"
ParseRegexp(item, arg) ==
    With(Compile(arg), LAMBDA reg :
        IF reg = Nil
        THEN [item EXCEPT !.Comment = <<"E", "r", "r", "o", "r", ":", " ">> \o arg \o
                  <<":", " ", "m", "a", "l", "f", "o", "r", "m", "e", "d", " ", "r", "e", "g", "u", "l", "a", "r", " ", "e", "x", "p", "r", "e", "s", "s", "i", "o", "n", ":", " ">> \o CompileError(arg)]
        ELSE [item EXCEPT !.Regexp = reg])

\* The end of the loop body: a network, else an address, else a hostname
ParseAddress(item, line) ==
    With(ParseCIDR(line), LAMBDA network :
        IF network # Nil THEN [item EXCEPT !.Network = network]
        ELSE With(ParseIP(line), LAMBDA addr :
            IF addr # Nil THEN [item EXCEPT !.IP = addr]
            ELSE [item EXCEPT !.Hostname = ToLower(line)]))

\* One iteration of the loop of ParseBlacklist over a line: the line is
\* skipped, or yields one item, or the slice line[:6] is out of range and the
\* program panics.
ParseLine(raw) ==
    With(IndexByte(raw, "#"), LAMBDA commentStart :
    With(TrimSpace(IF commentStart > 0 THEN SubSeq(raw, 1, commentStart - 1) ELSE raw),
         LAMBDA line1 :
    With(line1 # <<>> /\ line1[1] = "!", LAMBDA negated :
    With(IF negated THEN TrimSpace(SliceFrom(line1, 1)) ELSE line1, LAMBDA line :
    With([EmptyRule EXCEPT !.Negation = negated], LAMBDA item :
        IF line1 = <<>> THEN [panic |-> FALSE, skip |-> TRUE, item |-> EmptyRule]
        ELSE IF line = <<"*">>
        THEN [panic |-> FALSE, skip |-> FALSE, item |-> [item EXCEPT !.All = TRUE]]
        ELSE IF Len(line) < 6
        THEN [panic |-> TRUE, skip |-> FALSE, item |-> EmptyRule]
        ELSE [panic |-> FALSE, skip |-> FALSE, item |->
                 IF SubSeq(line, 1, 6) = <<"i", "p", "c", "a", "t", " ">>
                 THEN [item EXCEPT !.IPCat = TrimSpace(SliceFrom(line, 6))]
                 ELSE IF line[1] = "@"
                 THEN With(TrimSpace(SliceFrom(line, 1)),
                           LAMBDA arg : ParseGeofence(item, arg))
                 ELSE IF line[1] = "~"
                 THEN With(TrimSpace(SliceFrom(line, 1)),
                           LAMBDA arg : ParseRegexp(item, arg))
                 ELSE ParseAddress(item, line)])))))

\* The loop of ParseBlacklist from its k-th line on.
RECURSIVE ParseFrom(_, _, _)
ParseFrom(lines, k0, blacklist0) ==
    With(k0, LAMBDA k : With(blacklist0, LAMBDA blacklist :
        IF k > Len(lines) THEN [panic |-> FALSE, List |-> blacklist]
        ELSE With(ParseLine(lines[k]), LAMBDA step :
                 IF step.panic THEN [panic |-> TRUE, List |-> <<>>]
                 ELSE IF step.skip THEN ParseFrom(lines, k + 1, blacklist)
                 ELSE ParseFrom(lines, k + 1, Add(blacklist, step.item)))))

\* func ParseBlacklist(text string) Blacklist: the blacklist returned, or
\* panic when the call ended in a run-time panic and returned nothing
ParseBlacklist(t) ==
    With(Split(t, <<"\n">>[1]), LAMBDA lines : ParseFrom(lines, 1, <<>>))

\* func (i BlacklistRule) String() (value string)
RuleString(i) ==
    LET value == IF i.Negation THEN <<"!">> ELSE <<>>
    IN  IF i.All THEN value \o <<"*", " ", "#", " ", "W", "i", "l", "d", "c", "a", "r", "d">>
        ELSE IF i.Network # Nil THEN value \o IPNetString(i.Network[1]) \o <<" ", "#", " ", "N", "e", "t", "w", "o", "r", "k">>
        ELSE IF i.IP # Nil THEN value \o IPString(i.IP[1]) \o <<" ", "#", " ", "I", "P", " ", "A", "d", "d", "r", "e", "s", "s">>
        ELSE IF i.Hostname # <<>> THEN value \o i.Hostname \o <<" ", "#", " ", "H", "o", "s", "t", "n", "a", "m", "e">>
        ELSE IF i.Regexp # Nil
        THEN value \o <<"~">> \o RegexpString(i.Regexp[1]) \o <<" ", "#", " ", "R", "e", "g", "u", "l", "a", "r", " ", "E", "x", "p", "r", "e", "s", "s", "i", "o", "n">>
        ELSE IF i.Geofence # Nil
        THEN value \o <<"@", " ">> \o FormatFloat(i.Geofence[1].Latitude) \o <<",", " ">>
             \o FormatFloat(i.Geofence[1].Longitude) \o <<" ", "(">>
             \o FormatFloat(i.Geofence[1].Radius) \o <<"m", ")", " ", "#", " ", "G", "e", "o", "f", "e", "n", "c", "e">>
        ELSE value
             \o (IF i.IPCat # <<>> THEN <<"i", "p", "c", "a", "t", " ">> \o i.IPCat ELSE <<>>)
             \o (IF i.Comment # <<>> THEN <<"#", " ">> \o i.Comment ELSE <<>>)

\* func (b Blacklist) String() string
BlacklistString(b) ==
    LET itemCount == Cardinality({k \in DOMAIN b : b[k].Comment = <<>>})
        header == IF itemCount = 0 THEN <<"#", " ", "E", "m", "p", "t", "y", " ", "b", "l", "a", "c", "k", "l", "i", "s", "t">>
                  ELSE IF itemCount = 1 THEN <<"#", " ", "B", "l", "a", "c", "k", "l", "i", "s", "t", " ", "w", "i", "t", "h", " ", "1", " ", "i", "t", "e", "m">>
                  ELSE <<"#", " ", "B", "l", "a", "c", "k", "l", "i", "s", "t", " ", "w", "i", "t", "h", " ">> \o Itoa(itemCount) \o <<" ", "i", "t", "e", "m", "s">>
    IN  Join(<<header>> \o [k \in DOMAIN b |-> RuleString(b[k])], <<"\n">>)

-----------------------------------------------------------------------------
(* The parser specification: a text of up to MaxLines lines is parsed,     *)
(* the blacklist it yields is rendered and the rendering is parsed again.  *)

MaxLines == 2

\* The lines of the model: every kind of rule, plain and negated, the
\* malformed geofences and expression, blank and comment lines, and lines of
\* fewer than six characters.
BlacklistLines ==
    {<<"*">>,
     <<"!", "*">>,
     <<"1", "0", ".", "1", ".", "2", ".", "3", "/", "8">>,
     <<"!", " ", "1", "0", ".", "0", ".", "0", ".", "0", "/", "8">>,
     <<"8", ".", "8", ".", "8", ".", "8">>,
     <<" ", " ", "8", ".", "8", ".", "8", ".", "8", " ", "\t", "#", " ", "d", "n", "s">>,
     <<":", ":", "1">>,
     <<"0", ":", "0", ":", "0", ":", "0", ":", "0", ":", "0", ":", "0", ":", "1">>,
     <<":", ":", "1", "/", "1", "2", "8">>,
     <<"a", ".", "i", "o">>,
     <<"H", "o", "s", "t", ".", "E", "x", "a", "m", "p", "l", "e">>,
     <<"!", "H", "o", "s", "t", ".", "E", "x", "a", "m", "p", "l", "e">>,
     <<"~", "a">>,
     <<"~", "h", "\\", ".", ".", "*">>,
     <<"~", " ", "a", ".", "*", "b">>,
     <<"~", "(", "a", "b", "c", "d", "e">>,
     <<"@", "1", ",", "2">>,
     <<"@", " ", "1", ",", " ", "2">>,
     <<"@", " ", "-", "1", ",", " ", "+", "2", " ", "(", "3", "K", "M", ")">>,
     <<"!", "@", " ", "1", ",", " ", "2", " ", "(", "3", "m", "i", ")">>,
     <<"@", " ", "1", ",", " ", "2", " ", "(", "3", "x", "x", ")">>,
     <<"@", " ", "h", "e", "l", "l", "o">>,
     <<"i", "p", "c", "a", "t", " ", "t", "o", "r", "*">>,
     <<"!", "i", "p", "c", "a", "t", " ", "t", "o", "r", "*">>,
     <<"!">>,
     <<>>,
     <<"#", " ", "c", "o", "m", "m", "e", "n", "t">>}

Texts ==
    {Join(ls, <<"\n">>) : ls \in UNION {[1..k -> BlacklistLines] : k \in 1..MaxLines}}

InitParse ==
    /\ text \in Texts
    /\ parsed = Nil /\ rendered = Nil /\ reparsed = Nil
    /\ EvalIdle
    /\ GeoIdle
    /\ GateIdle

Parse ==
    /\ parsed = Nil
    /\ parsed' = <<ParseBlacklist(text)>>
    /\ UNCHANGED <<text, rendered, reparsed, evalVars, geoVars, gateVars>>

Render ==
    /\ parsed # Nil /\ ~parsed[1].panic
    /\ rendered = Nil
    /\ rendered' = <<BlacklistString(parsed[1].List)>>
    /\ UNCHANGED <<text, parsed, reparsed, evalVars, geoVars, gateVars>>

Reparse ==
    /\ rendered # Nil
    /\ reparsed = Nil
    /\ reparsed' = <<ParseBlacklist(rendered[1])>>
    /\ UNCHANGED <<text, parsed, rendered, evalVars, geoVars, gateVars>>

NextParse == Parse \/ Render \/ Reparse

SpecParse == InitParse /\ [][NextParse]_vars

-----------------------------------------------------------------------------
(* Claims about the parser *)

\* a line that is not blank once its comment and white space are removed
NonBlank(raw) ==
    LET hash == IndexByte(raw, "#")
    IN  TrimSpace(IF hash > 0 THEN SubSeq(raw, 1, hash - 1) ELSE raw) # <<>>

\* a rule that holds a comment and nothing else, but for its negation flag
CommentOnly(rule) ==
    rule = [EmptyRule EXCEPT !.Comment = rule.Comment, !.Negation = rule.Negation]

\* C13: ParseBlacklist is total.  For every text it returns a blacklist
\* without aborting; its rules are, in source order, the one rule of each
\* non-blank line, whatever the other lines are and however short the line
\* is; and a rule that carries an error comment carries nothing else.
C13_ParseIsTotal ==
    parsed # Nil =>
        LET lines == SelectSeq(Split(text, <<"\n">>[1]), NonBlank)
        IN  /\ ~parsed[1].panic
            /\ Len(parsed[1].List) = Len(lines)
            /\ \A k \in DOMAIN lines :
                   /\ ParseBlacklist(lines[k]) =
                          [panic |-> FALSE, List |-> <<parsed[1].List[k]>>]
                   /\ parsed[1].List[k].Comment # <<>>
                          => CommentOnly(parsed[1].List[k])

\* the text parsed to at least one rule and to no error comment
WellFormed ==
    /\ parsed # Nil /\ ~parsed[1].panic
    /\ parsed[1].List # <<>>
    /\ \A k \in DOMAIN parsed[1].List : parsed[1].List[k].Comment = <<>>

\* C14: parse, render, parse is idempotent.  When a text of well-formed
\* rule lines has been parsed and rendered, parsing the rendering returns
\* the same rules in the same order with the same negation flags (the parsed
\* rules hold the normalised hostname and the radius in metres already).
C14_RoundTrip ==
    (reparsed # Nil /\ WellFormed) =>
        /\ ~reparsed[1].panic
        /\ reparsed[1].List = parsed[1].List

====
